---- MODULE Spec2Model ----
(***************************************************************************)
(* Model of the rule-driven rename engine of renamer.py: argument          *)
(* processing, rule loading with the optional step filter, planning,       *)
(* the preview gate, the rename loop and the backup manifest.              *)
(*                                                                         *)
(* Strings (file names, paths, rule texts, operator input) are sequences   *)
(* of one-character strings, so that the path and text functions of the    *)
(* program are computed character by character.                            *)
(***************************************************************************)
EXTENDS Integers, Sequences, FiniteSets, TLC

(***************************************************************************)
(* Text helpers: str methods and the re calls the program uses.            *)
(***************************************************************************)

\* The whitespace characters of the modelled alphabet (str.strip, \s).
Whitespace == {" "}

\* s[i..j] as a sequence (empty when j < i).
Slice(s, i, j) == IF j < i THEN <<>> ELSE SubSeq(s, i, j)

\* Number of leading / trailing whitespace characters of s.
RECURSIVE LeadingWs(_, _)
LeadingWs(s, i) ==
    IF i > Len(s) \/ s[i] \notin Whitespace THEN i - 1 ELSE LeadingWs(s, i + 1)

RECURSIVE TrailingWs(_, _)
TrailingWs(s, j) ==
    IF j < 1 \/ s[j] \notin Whitespace THEN Len(s) - j ELSE TrailingWs(s, j - 1)

\* str.strip()
str_strip(s) ==
    LET a == LeadingWs(s, 1)
    IN  IF a = Len(s) THEN <<>> ELSE Slice(s, a + 1, Len(s) - TrailingWs(s, Len(s)))

\* str.lower() on the modelled alphabet.
LowerChar(c) ==
    CASE c = "Y" -> "y"
      [] c = "E" -> "e"
      [] c = "S" -> "s"
      [] c = "N" -> "n"
      [] OTHER   -> c

str_lower(s) == [i \in 1..Len(s) |-> LowerChar(s[i])]

\* The literal text p occurs in s at position i.
LiteralAt(s, p, i) ==
    /\ i + Len(p) - 1 <= Len(s)
    /\ \A k \in 1..Len(p) : s[i + k - 1] = p[k]

\* `target in original_name`
str_contains(s, p) == \E i \in 1..(Len(s) + 1) : LiteralAt(s, p, i)

\* str.replace(p, to) for a non-empty p: every non-overlapping occurrence,
\* scanning left to right.
RECURSIVE ReplaceFrom(_, _, _, _)
ReplaceFrom(s, p, to, i) ==
    IF i > Len(s) THEN <<>>
    ELSE IF LiteralAt(s, p, i) THEN to \o ReplaceFrom(s, p, to, i + Len(p))
    ELSE <<s[i]>> \o ReplaceFrom(s, p, to, i + 1)

\* str_replace replacing the first occurrence only.
str_replace_first(s, p, to) ==
    IF \E i \in 1..Len(s) : LiteralAt(s, p, i)
    THEN LET i == CHOOSE i \in 1..Len(s) :
                     LiteralAt(s, p, i) /\ \A j \in 1..(i - 1) : ~LiteralAt(s, p, j)
         IN  Slice(s, 1, i - 1) \o to \o Slice(s, i + Len(p), Len(s))
    ELSE s

str_replace(s, p, to) == ReplaceFrom(s, p, to, 1)

\* Regular expressions over the modelled alphabet: a pattern is a sequence
\* of characters where "." matches any character, "(" opens a group, and
\* every other character matches itself.  The alphabet has no ")" and no
\* backslash, so a pattern containing "(" is an unterminated group and
\* re.search / re.sub raise re.error for it.
re_malformed(p) == \E k \in 1..Len(p) : p[k] = "("

\* The pattern p matches s at position i (patterns match a fixed length).
PatternAt(s, p, i) ==
    /\ i + Len(p) - 1 <= Len(s)
    /\ \A k \in 1..Len(p) : p[k] = "." \/ s[i + k - 1] = p[k]

\* re.search(p, s) is not None, for a well-formed non-empty p.
re_search(p, s) == \E i \in 1..Len(s) : PatternAt(s, p, i)

\* re.sub(p, to, s) for a well-formed non-empty p and a template without
\* backslashes: every non-overlapping match, leftmost first.
RECURSIVE ReSubFrom(_, _, _, _)
ReSubFrom(s, p, to, i) ==
    IF i > Len(s) THEN <<>>
    ELSE IF PatternAt(s, p, i) THEN to \o ReSubFrom(s, p, to, i + Len(p))
    ELSE <<s[i]>> \o ReSubFrom(s, p, to, i + 1)

re_sub(p, to, s) == ReSubFrom(s, p, to, 1)

\* re.sub(r'\s+', ' ', name).strip(): each run of whitespace becomes one
\* space, then leading and trailing whitespace is removed.
RECURSIVE CollapseFrom(_, _)
CollapseFrom(s, i) ==
    IF i > Len(s) THEN <<>>
    ELSE IF s[i] \in Whitespace
         THEN IF i > 1 /\ s[i - 1] \in Whitespace
              THEN CollapseFrom(s, i + 1)
              ELSE <<" ">> \o CollapseFrom(s, i + 1)
         ELSE <<s[i]>> \o CollapseFrom(s, i + 1)

clean_name(name) == str_strip(CollapseFrom(name, 1))

(***************************************************************************)
(* Path helpers: posixpath.split, join, splitext, basename.                *)
(***************************************************************************)

\* Index of the last occurrence of character c in s, 0 if none.
RECURSIVE RFind(_, _, _)
RFind(s, c, j) ==
    IF j < 1 THEN 0 ELSE IF s[j] = c THEN j ELSE RFind(s, c, j - 1)

\* s without its trailing "/" characters.
RECURSIVE RStripSlash(_)
RStripSlash(s) ==
    IF Len(s) > 0 /\ s[Len(s)] = "/" THEN RStripSlash(Slice(s, 1, Len(s) - 1)) ELSE s

AllSlashes(s) == \A k \in 1..Len(s) : s[k] = "/"

\* os.path.split(p) -> <<head, tail>>
path_split(p) ==
    LET i    == RFind(p, "/", Len(p))
        head == Slice(p, 1, i)
        tail == Slice(p, i + 1, Len(p))
    IN  <<IF head # <<>> /\ ~AllSlashes(head) THEN RStripSlash(head) ELSE head, tail>>

\* os.path.join(a, b)
path_join(a, b) ==
    IF Len(b) > 0 /\ b[1] = "/" THEN b
    ELSE IF a = <<>> \/ a[Len(a)] = "/" THEN a \o b
    ELSE a \o <<"/">> \o b

\* os.path.basename(p)
path_basename(p) == path_split(p)[2]

\* Index of the first character of s at or after i that is not ".".
RECURSIVE SkipDots(_, _)
SkipDots(s, i) ==
    IF i <= Len(s) /\ s[i] = "." THEN SkipDots(s, i + 1) ELSE i

\* path_splitext splitting at the last "." of the component wherever it is.
path_splitext_lastdot(p) ==
    LET sep == RFind(p, "/", Len(p))
        dot == RFind(p, ".", Len(p))
    IN  IF dot > sep
        THEN <<Slice(p, 1, dot - 1), Slice(p, dot, Len(p))>>
        ELSE <<p, <<>>>>

\* os.path.splitext(p) -> <<root, ext>>: the extension starts at the last
\* "." of the last path component, leading dots of the component excluded.
path_splitext(p) ==
    LET sep == RFind(p, "/", Len(p))
        dot == RFind(p, ".", Len(p))
    IN  IF dot > sep /\ SkipDots(p, sep + 1) < dot
        THEN <<Slice(p, 1, dot - 1), Slice(p, dot, Len(p))>>
        ELSE <<p, <<>>>>

(***************************************************************************)
(* Inputs of a run: the rule documents found in renamer_replacements, the  *)
(* files of the target directory, the command line and the operator's      *)
(* answers.                                                                *)
(***************************************************************************)

\* Largest number of candidate files in the target directory.
MaxFiles == 2
\* Largest number of categories declared by the rule documents of a run.
MaxCats == 2
\* Largest number of times the environment interferes with a run: a file
\* removed by another process, a rename refused by the file system.
MaxFaults == 1

\* A JSON object without the key "category".
NoName == "<no category key>"
\* An option that was not given on the command line.
NotGiven == -1

Pair(f, t) == [from |-> f, to |-> t]

\* A category object whose "pairs" is a list.
Category(n, ps, re) ==
    [category |-> n, pairsValid |-> TRUE, pairs |-> ps, regular_expressions |-> re]

\* A category object whose "pairs" is missing or is not a list.
BadCategory ==
    [category |-> "broken", pairsValid |-> FALSE, pairs |-> <<>>,
     regular_expressions |-> FALSE]

\* The categories rule documents are made of.  "demo" starts with a pair
\* whose from is empty and one whose from is a space; "next" ends with a
\* pair whose from is a dot; "regex" and the category without a name ask
\* for regular expressions and start with a pattern that does not compile;
\* the second pattern of "regex" needs two characters to match.
CatDemo ==
    Category("demo", <<Pair(<<>>, <<"c">>), Pair(<<" ">>, <<"b">>),
                       Pair(<<"a">>, <<"b">>)>>, FALSE)
CatNext ==
    Category("next", <<Pair(<<"b">>, <<"c">>), Pair(<<"a">>, <<"b">>),
                       Pair(<<".">>, <<"b">>)>>, FALSE)
CatRegex ==
    Category("regex", <<Pair(<<"(">>, <<"c">>), Pair(<<"a", ".">>, <<"b">>),
                        Pair(<<".">>, <<"c">>)>>, TRUE)
CatNoName ==
    Category(NoName, <<Pair(<<"(">>, <<"c">>), Pair(<<"a">>, <<"/">>)>>, TRUE)

\* The categories that have a pairs list.
Categories == {CatDemo, CatNext, CatRegex, CatNoName}

\* A rule document: a file that parses as JSON or not, with or without a
\* top-level "Replacements" list.
Document(cs) == [parses |-> TRUE, hasReplacements |-> TRUE, Replacements |-> cs]
Unparseable  == [parses |-> FALSE, hasReplacements |-> FALSE, Replacements |-> <<>>]
NoListKey    == [parses |-> TRUE, hasReplacements |-> FALSE, Replacements |-> <<>>]

\* Sequences of at most n distinct elements of S.
RECURSIVE SeqsUpTo(_, _)
SeqsUpTo(S, n) ==
    IF n = 0 THEN {<<>>}
    ELSE LET shorter == SeqsUpTo(S, n - 1)
         IN  shorter \cup
             UNION {{Append(q, x) : x \in S \ {q[i] : i \in 1..Len(q)}} : q \in shorter}

\* The contents of renamer_replacements, in os.listdir order: one document
\* declaring at most MaxCats different categories; one document with a
\* category that has no pairs list, alone, before or after another
\* category; two documents of one category each; a document that cannot be
\* loaded, alone or after another.
Repos ==
    {<<Document(cs)>> : cs \in SeqsUpTo(Categories, MaxCats)}
    \cup {<<Document(<<BadCategory>>)>>}
    \cup {<<Document(<<BadCategory, c>>)>> : c \in Categories}
    \cup {<<Document(<<c, BadCategory>>)>> : c \in Categories}
    \cup {<<Document(<<p[1]>>), Document(<<p[2]>>)>> :
             p \in {q \in Categories \X Categories : q[1] # q[2]}}
    \cup {<<bad>> : bad \in {Unparseable, NoListKey}}
    \cup {<<Document(<<c>>), bad>> : c \in Categories, bad \in {Unparseable, NoListKey}}

\* File names of the target directory.
FileNames ==
    { <<"a", ".", "t">>,
      <<"b", ".", "t">>,
      <<"a", " ", " ", "b", " ", ".", "t">>,
      <<".", "a", "b">> }

\* The target directory and the directories that exist beside it.
TargetDir == <<"d">>
Dirs == {<<"d">>, <<"/">>}

\* Values of --path: the directory, the directory written with trailing
\* separators, one file of it, a path that does not exist.
PathArgs == {<<"d">>, <<"d", "/", "/">>, <<"d", "/", "a", ".", "t">>, <<"q">>}

\* Lines the operator types at a prompt.
Inputs ==
    { <<"y">>, <<" ", "Y", "E", "S">>, <<"n">>, <<>> }

\* Values of --replace: one pair, a text without braces.
ReplaceArgs == { <<"{", "a", ",", "b", "}">>, <<"a", "b">> }

\* Command lines on the target directory: --backup with and without
\* --expression, with and without --step; --sleep with each value of
\* --path; the limits of --sleep, the position options and --replace, on
\* one file; --replace_json naming the document renamer_replacements lists
\* first.
Argv(b, s, x, t, c, d, a, p, j, l) ==
    [backup |-> b, step |-> s, expression |-> x, sleep |-> t,
     position |-> c, delete |-> d, add |-> a, path |-> p, replace_json |-> j,
     replace |-> l]

Argvs ==
    {Argv(b, FALSE, x, NotGiven, NotGiven, NotGiven, <<>>, <<"d">>, <<>>, <<>>) :
        b \in BOOLEAN, x \in BOOLEAN}
    \cup
    {Argv(b, TRUE, FALSE, NotGiven, NotGiven, NotGiven, <<>>, <<"d">>, <<>>, <<>>) :
        b \in BOOLEAN}
    \cup
    {Argv(FALSE, FALSE, FALSE, t, NotGiven, NotGiven, <<>>, <<"d", "/", "a", ".", "t">>,
          <<>>, <<>>) : t \in {0, 60, 61}}
    \cup
    {Argv(FALSE, FALSE, FALSE, 1, NotGiven, NotGiven, <<>>, p, <<>>, <<>>) : p \in PathArgs}
    \cup
    {Argv(FALSE, FALSE, FALSE, NotGiven, c, d, a, <<"d", "/", "a", ".", "t">>, <<>>, <<>>) :
        c \in {NotGiven, 1}, d \in {NotGiven, 1}, a \in {<<>>, <<"x">>}}
    \cup
    {Argv(FALSE, FALSE, FALSE, NotGiven, NotGiven, NotGiven, <<>>, <<"d">>, <<1>>, <<>>)}
    \cup
    {Argv(FALSE, FALSE, FALSE, 1, NotGiven, NotGiven, <<>>, <<"d", "/", "a", ".", "t">>,
          <<>>, <<l>>) : l \in ReplaceArgs}

(***************************************************************************)
(* State                                                                   *)
(***************************************************************************)
VARIABLES
    pc,                 \* the statement of main() the run is at
    backup_flag, step_flag, sleep_arg, expression_flag, path_arg,
    position_arg, delete_arg, add_arg,
    replace_args,       \* pairs given with --replace
    replace_json_args,  \* rule documents to load (positions in repo), in load order
    repo,               \* the documents of renamer_replacements, while the run reads them
    disk,               \* paths of the regular files that exist
    backup_dir,         \* renamer_backups exists
    manifests,          \* backup files written, in order
    replacements,       \* merged_replacements["Replacements"]
    docIdx, catIdx,     \* position of load_json_files in its two loops
    omitted,            \* categories rejected for a missing or invalid pairs list
    prompts,            \* category names asked about in step mode, in order
    user_response,      \* the line read by the inclusion prompt, until it is tested
    files_to_process, fileIdx,
    processed_files,    \* the planned batch: <<old, new>> pairs
    plan_log,           \* per candidate planned: path, proposed path, regex errors,
                        \* empty-target warnings,
                        \* and original_name at first and after each pair
    user_input,         \* the line read by the preview prompt, until it is tested
    confirmed,          \* the preview prompt was answered and the answer accepted
    notice,             \* the INFO line rename_files printed at the gate
    execIdx,            \* position of the rename loop
    results,            \* per operation reached by the rename loop: what happened
    faults              \* interferences of the environment so far

argVars  == <<backup_flag, step_flag, sleep_arg, expression_flag, path_arg,
              position_arg, delete_arg, add_arg, replace_args>>
loadVars == <<replace_json_args, replacements, docIdx, catIdx, omitted, prompts,
              user_response>>
planVars == <<files_to_process, fileIdx, processed_files, plan_log>>
execVars == <<user_input, confirmed, notice, execIdx, results>>
fsVars   == <<disk, backup_dir, manifests, faults>>

vars == <<pc, argVars, loadVars, planVars, execVars, fsVars, repo>>

\* The line read at a prompt before anything was typed.
NoInput == <<"-">>

\* No line printed yet by rename_files at the gate.
NoNotice == "-"

\* Sets of at most n elements of S.
SubsetsUpTo(S, n) == {T \in SUBSET S : Cardinality(T) <= n}

Init ==
    /\ pc = "args"
    /\ backup_flag = FALSE
    /\ step_flag = FALSE
    /\ sleep_arg = -1
    /\ expression_flag = FALSE
    /\ path_arg = <<>>
    /\ position_arg = -1
    /\ delete_arg = -1
    /\ add_arg = <<>>
    /\ replace_args = <<>>
    /\ replace_json_args = <<>>
    /\ repo \in Repos
    /\ \E names \in SubsetsUpTo(FileNames, MaxFiles) :
          disk = {path_join(TargetDir, n) : n \in names}
    /\ backup_dir = FALSE
    /\ manifests = <<>>
    /\ replacements = <<>>
    /\ docIdx = 1
    /\ catIdx = 1
    /\ omitted = 0
    /\ prompts = <<>>
    /\ user_response = NoInput
    /\ files_to_process = <<>>
    /\ fileIdx = 1
    /\ processed_files = <<>>
    /\ plan_log = <<>>
    /\ user_input = NoInput
    /\ confirmed = FALSE
    /\ notice = NoNotice
    /\ execIdx = 1
    /\ results = <<>>
    /\ faults = 0

(***************************************************************************)
(* process_args                                                            *)
(***************************************************************************)

\* The two "Argument Validation" tests that end process_args.
ArgsValid(c, d, a) ==
    /\ ~((d # -1 /\ c = -1) \/ (d = -1 /\ c # -1))
    /\ ~((a # <<>> /\ c = -1) \/ (a = <<>> /\ c # -1))

\* --sleep is rejected outside 1..60 while the options are read.
SleepValid(t) == t = NotGiven \/ (1 <= t /\ t <= 60)

\* Position of the first c in s at or after i, 0 when there is none.
RECURSIVE Find(_, _, _)
Find(s, c, i) ==
    IF i > Len(s) THEN 0 ELSE IF s[i] = c THEN i ELSE Find(s, c, i + 1)

\* re.findall(r"\{(.*?),(.*?)\}", s) from position i: the next "{", the
\* first "," after it, the first "}" after that; then on from the "}".
RECURSIVE FindAllPairs(_, _)
FindAllPairs(s, i) ==
    LET open  == Find(s, "{", i)
        comma == IF open = 0 THEN 0 ELSE Find(s, ",", open + 1)
        close == IF comma = 0 THEN 0 ELSE Find(s, "}", comma + 1)
    IN  IF close = 0 THEN <<>>
        ELSE <<[from |-> Slice(s, open + 1, comma - 1),
                to |-> Slice(s, comma + 1, close - 1)]>>
                 \o FindAllPairs(s, close + 1)

\* parse_replacements(arg): the pairs found; none is an error (exit 2).
parse_replacements(arg) == FindAllPairs(arg, 1)

\* The pairs of every --replace option, in order.
RECURSIVE ParsedReplaceArgs(_)
ParsedReplaceArgs(ls) ==
    IF ls = <<>> THEN <<>>
    ELSE parse_replacements(Head(ls)) \o ParsedReplaceArgs(Tail(ls))

\* Every --replace option holds at least one pair.
ReplaceValid(ls) == \A k \in 1..Len(ls) : parse_replacements(ls[k]) # <<>>

ProcessArgs ==
    /\ pc = "args"
    /\ \E argv \in Argvs :
        /\ backup_flag' = argv.backup
        /\ step_flag' = argv.step
        /\ expression_flag' = argv.expression
        /\ sleep_arg' = argv.sleep
        /\ path_arg' = argv.path
        /\ position_arg' = argv.position
        /\ delete_arg' = argv.delete
        /\ add_arg' = argv.add
        /\ replace_args' = replace_args \o ParsedReplaceArgs(argv.replace)
        /\ replace_json_args' = replace_json_args \o argv.replace_json
        /\ pc' = IF /\ SleepValid(argv.sleep)
                    /\ ReplaceValid(argv.replace)
                    /\ ArgsValid(argv.position, argv.delete, argv.add)
                 THEN "discover" ELSE "exit2"
    /\ UNCHANGED <<replacements, docIdx, catIdx, omitted, prompts, user_response,
                   planVars, execVars, fsVars, repo>>

(***************************************************************************)
(* The file system                                                         *)
(***************************************************************************)

\* p with each run of "/" written once.
RECURSIVE Squeeze(_, _)
Squeeze(p, i) ==
    IF i > Len(p) THEN <<>>
    ELSE IF p[i] = "/" /\ i > 1 /\ p[i - 1] = "/" THEN Squeeze(p, i + 1)
    ELSE <<p[i]>> \o Squeeze(p, i + 1)

\* The file a path names: the kernel ignores repeated and trailing "/".
Resolve(p) ==
    LET q == Squeeze(p, 1) IN IF Len(q) > 1 THEN RStripSlash(q) ELSE q

os_path_isfile(fs, p) == Resolve(p) \in fs
os_path_isdir(p)      == Resolve(p) \in Dirs
os_path_exists(fs, p) == os_path_isfile(fs, p) \/ os_path_isdir(p)

\* os.rename(old, new) can succeed: old exists, the directory of new
\* exists and new names a file in it (not a directory).
RenamePossible(fs, old, new) ==
    LET dst == path_split(Resolve(new))
    IN  /\ os_path_isfile(fs, old)
        /\ dst[1] \in Dirs
        /\ dst[2] # <<>>
        /\ Resolve(new) \notin Dirs

\* The files after a successful os.rename(old, new): the file is known by
\* its new path, and a file that had that path is replaced.
os_rename(fs, old, new) == (fs \ {Resolve(old)}) \cup {Resolve(new)}

\* The orders in which os.listdir can return the names of S.
Orderings(S) ==
    {q \in [1..Cardinality(S) -> S] : \A i, j \in 1..Cardinality(S) : i # j => q[i] # q[j]}

(***************************************************************************)
(* main: discovery of the rule documents, load_json_files                  *)
(***************************************************************************)

\* main appends every *.json of renamer_replacements to replace_json_args.
Discover ==
    /\ pc = "discover"
    /\ replace_json_args' = replace_json_args \o [i \in 1..Len(repo) |-> i]
    /\ pc' = "open"
    /\ UNCHANGED <<argVars, replacements, docIdx, catIdx, omitted, prompts,
                   user_response, planVars, execVars, fsVars, repo>>

\* The statement load_json_files reaches after category c of document d:
\* the next category, the next document, or its return.
AfterCategory(d, c) ==
    IF c < Len(repo[replace_json_args[d]].Replacements)
    THEN [pc |-> "category", docIdx |-> d, catIdx |-> c + 1]
    ELSE [pc |-> "open", docIdx |-> d + 1, catIdx |-> 1]

\* json.load and the test for the "Replacements" list; a document that
\* fails either ends the process with status 2.
OpenDoc ==
    /\ pc = "open"
    /\ docIdx <= Len(replace_json_args)
    /\ LET doc == repo[replace_json_args[docIdx]]
       IN  IF ~doc.parses \/ ~doc.hasReplacements
           THEN /\ pc' = "exit2"
                /\ UNCHANGED <<docIdx, catIdx>>
           ELSE LET nxt == AfterCategory(docIdx, 0)
                IN  /\ pc' = nxt.pc
                    /\ docIdx' = nxt.docIdx
                    /\ catIdx' = nxt.catIdx
    /\ UNCHANGED <<argVars, replace_json_args, replacements, omitted, prompts,
                   user_response, planVars, execVars, fsVars, repo>>

\* Affirmative with every answer taken as acceptance.
AffirmativeAlways(line) == TRUE

\* The answer to "Include category ...?" is accepted.
Affirmative(line) == str_lower(str_strip(line)) \in {<<"y">>, <<"y", "e", "s">>}

\* A category whose "pairs" is a list is merged.
PairsUsable(category) == category.pairsValid

\* The category the loop over data["Replacements"] is at.
CurrentCategory == repo[replace_json_args[docIdx]].Replacements[catIdx]

\* One pass of the loop over data["Replacements"], up to the line read by
\* the inclusion prompt in step mode.
LoadCategory ==
    /\ pc = "category"
    /\ LET category == CurrentCategory
           nxt      == AfterCategory(docIdx, catIdx)
       IN  IF PairsUsable(category)
           THEN IF step_flag
                THEN \E line \in Inputs :
                       /\ prompts' = Append(prompts, category.category)
                       /\ user_response' = line
                       /\ pc' = "answer"
                       /\ UNCHANGED <<replacements, omitted, docIdx, catIdx>>
                ELSE /\ replacements' = Append(replacements, category)
                     /\ pc' = nxt.pc
                     /\ docIdx' = nxt.docIdx
                     /\ catIdx' = nxt.catIdx
                     /\ UNCHANGED <<omitted, prompts, user_response>>
           ELSE \* "ERROR: Missing or invalid 'pairs' in category ..."
                /\ omitted' = omitted + 1
                /\ pc' = nxt.pc
                /\ docIdx' = nxt.docIdx
                /\ catIdx' = nxt.catIdx
                /\ UNCHANGED <<replacements, prompts, user_response>>
    /\ UNCHANGED <<argVars, replace_json_args, planVars, execVars, fsVars, repo>>

\* The test of the line read by the inclusion prompt: the category is
\* merged or passed over.  The line is not read again afterwards.
IncludeAnswer ==
    /\ pc = "answer"
    /\ LET nxt == AfterCategory(docIdx, catIdx)
       IN  /\ replacements' = IF Affirmative(user_response)
                              THEN Append(replacements, CurrentCategory)
                              ELSE replacements
           /\ user_response' = NoInput
           /\ pc' = nxt.pc
           /\ docIdx' = nxt.docIdx
           /\ catIdx' = nxt.catIdx
    /\ UNCHANGED <<argVars, replace_json_args, omitted, prompts, planVars, execVars,
                   fsVars, repo>>

\* load_json_files returns the merged rules; create_backup_dir.  No
\* document is opened after this point, so their contents leave the state.
CreateBackupDir ==
    /\ pc = "open"
    /\ docIdx > Len(replace_json_args)
    /\ backup_dir' = (backup_dir \/ backup_flag)
    /\ pc' = "collect"
    /\ repo' = <<>>
    /\ UNCHANGED <<argVars, loadVars, planVars, execVars, disk, manifests, faults>>

(***************************************************************************)
(* main: the candidate files                                               *)
(***************************************************************************)

\* Names of the regular files directly inside directory p.
ListDir(fs, p) == {path_split(f)[2] : f \in {g \in fs : path_split(g)[1] = Resolve(p)}}

\* "Collect files", with no extension filter and without --recursive.
CollectFiles ==
    /\ pc = "collect"
    /\ IF os_path_isfile(disk, path_arg)
       THEN /\ files_to_process' = <<path_arg>>
            /\ pc' = "plan"
       ELSE IF os_path_isdir(path_arg)
       THEN \E listing \in Orderings(ListDir(disk, path_arg)) :
               /\ files_to_process' = [i \in 1..Len(listing) |-> path_join(path_arg, listing[i])]
               /\ pc' = IF Len(listing) = 0 THEN "preview" ELSE "plan"
       ELSE /\ pc' = "exit2"
            /\ UNCHANGED files_to_process
    /\ UNCHANGED <<argVars, loadVars, fileIdx, processed_files, plan_log,
                   execVars, fsVars, repo>>

(***************************************************************************)
(* main: the planner ("Apply replacements")                                *)
(***************************************************************************)

\* EmptyTarget testing the text as written, without trimming it.
EmptyTargetUntrimmed(target) == target = <<>>

\* The pair is skipped with "WARNING: Skipping empty target".
EmptyTarget(target) == str_strip(target) = <<>>

\* RegexMode decided by the command line alone.
RegexModeFlagOnly(xflag, category) == xflag

\* The pair is applied as a regular expression.
RegexMode(xflag, category) == xflag /\ category.regular_expressions

\* The body of the loop over category["pairs"] for one pair: the name
\* after the pair, whether the pair was skipped with the warning, whether
\* "ERROR: Invalid regex" was printed, and whether printing it raised
\* KeyError (the message reads category['category']).
ApplyPair(name, pair, category, xflag) ==
    LET target      == pair.from
        replacement == pair.to
        same        == [name |-> name, error |-> FALSE, crashed |-> FALSE, skipped |-> FALSE]
    IN  IF EmptyTarget(target) THEN [same EXCEPT !.skipped = TRUE]
        ELSE IF RegexMode(xflag, category)
        THEN IF re_malformed(target)
             THEN IF category.category = NoName
                  THEN [same EXCEPT !.crashed = TRUE]
                  ELSE [same EXCEPT !.error = TRUE]
             ELSE IF re_search(target, name)
                  THEN [same EXCEPT !.name = re_sub(target, replacement, name)]
                  ELSE same
        ELSE IF str_contains(name, target)
             THEN [same EXCEPT !.name = str_replace(name, target, replacement)]
             ELSE same

\* The two nested loops from pair k of category c on, for the name so
\* far; names lists the values original_name has had, one per pair met;
\* errors and warnings count the messages printed.
RECURSIVE ApplyFrom(_, _, _, _, _, _, _, _)
ApplyFrom(name, cats, c, k, xflag, errors, warnings, names) ==
    IF c > Len(cats)
    THEN [name |-> name, errors |-> errors, warnings |-> warnings, crashed |-> FALSE,
          names |-> names]
    ELSE IF k > Len(cats[c].pairs)
    THEN ApplyFrom(name, cats, c + 1, 1, xflag, errors, warnings, names)
    ELSE LET r == ApplyPair(name, cats[c].pairs[k], cats[c], xflag)
         IN  IF r.crashed
             THEN [name |-> r.name, errors |-> errors, warnings |-> warnings,
                   crashed |-> TRUE, names |-> names]
             ELSE ApplyFrom(r.name, cats, c, k + 1, xflag,
                            IF r.error THEN errors + 1 ELSE errors,
                            IF r.skipped THEN warnings + 1 ELSE warnings,
                            Append(names, r.name))

\* ApplyReplacements with every category applied to the name the file
\* had at first, the last category's result being kept.
ApplyToFirstName(name, cats, xflag) ==
    IF cats = <<>> THEN ApplyFrom(name, cats, 1, 1, xflag, 0, 0, <<name>>)
    ELSE ApplyFrom(name, <<cats[Len(cats)]>>, 1, 1, xflag, 0, 0, <<name>>)

ApplyReplacements(name, cats, xflag) == ApplyFrom(name, cats, 1, 1, xflag, 0, 0, <<name>>)

\* The proposed path of a candidate: the rules act on the name without its
\* extension, then "Generate new file path".
NewFilePath(file_path, new_name) ==
    LET parts == path_split(file_path)
        ext   == path_splitext(parts[2])[2]
    IN  path_join(parts[1], new_name \o ext)

\* "Check if renaming is required"
RenameRequired(file_path, new_file_path) == file_path # new_file_path

\* The statement after the planner's loop has handled candidate i.
AfterCandidate(i) == IF i < Len(files_to_process) THEN "plan" ELSE "preview"

\* One pass of the loop over files_to_process; r is the outcome of "Apply
\* replacements" for the candidate.
PlanFile ==
    /\ pc = "plan"
    /\ LET file_path == files_to_process[fileIdx]
           file_name == path_split(file_path)[2]
       IN  IF ~os_path_exists(disk, file_path)
           THEN \* "ERROR: File not found ..., skipping."
                /\ pc' = AfterCandidate(fileIdx)
                /\ fileIdx' = fileIdx + 1
                /\ UNCHANGED <<processed_files, plan_log>>
           ELSE \E r \in {ApplyReplacements(path_splitext(file_name)[1], replacements,
                                            expression_flag)} :
                  IF r.crashed
                  THEN \* the traceback of the uncaught KeyError ends the process
                       /\ pc' = "KeyError"
                       /\ UNCHANGED <<fileIdx, processed_files, plan_log>>
                  ELSE \E new_file_path \in {NewFilePath(file_path, r.name)} :
                         /\ pc' = AfterCandidate(fileIdx)
                         /\ fileIdx' = fileIdx + 1
                         /\ plan_log' = Append(plan_log,
                                               [file_path |-> file_path,
                                                new_file_path |-> new_file_path,
                                                errors |-> r.errors,
                                                warnings |-> r.warnings,
                                                names |-> r.names])
                         /\ processed_files' =
                               IF RenameRequired(file_path, new_file_path)
                               THEN Append(processed_files, <<file_path, new_file_path>>)
                               ELSE processed_files
    /\ UNCHANGED <<argVars, loadVars, files_to_process, execVars, fsVars, repo>>

(***************************************************************************)
(* rename_files(processed_files, preview_mode=True)                        *)
(***************************************************************************)

\* Proceeds without the conversion to lower case.
ProceedsCaseSensitive(line) == str_strip(line) \in {<<"y">>, <<"y", "e", "s">>}

\* The preview prompt's answer lets the renaming proceed.
Proceeds(line) == str_lower(str_strip(line)) \in {<<"y">>, <<"y", "e", "s">>}

\* BatchEmpty with the test `if not files` left out.
BatchEmptyUnchecked(files) == FALSE

\* rename_files has nothing to do.
BatchEmpty(files) == files = <<>>

\* "No files to process", or the preview and the line read at its prompt.
Preview ==
    /\ pc = "preview"
    /\ IF BatchEmpty(processed_files)
       THEN /\ notice' = "No files to process."
            /\ pc' = "backup"
            /\ UNCHANGED user_input
       ELSE \E line \in Inputs :
               /\ user_input' = line
               /\ pc' = "confirm"
               /\ UNCHANGED notice
    /\ UNCHANGED <<argVars, loadVars, planVars, confirmed, execIdx, results, fsVars, repo>>

\* AfterAnswer without the return that cancels the batch.
AfterAnswerNoReturn(accepted) == "exec"

\* Where rename_files continues after the test of the line: the rename
\* loop, or its return to main ("Operation canceled by the user").
AfterAnswer(accepted) == IF accepted THEN "exec" ELSE "backup"

\* The test of the line.  The line is not read again afterwards.
Confirm ==
    /\ pc = "confirm"
    /\ confirmed' = Proceeds(user_input)
    /\ notice' = IF Proceeds(user_input) THEN "Proceeding with file renaming."
                 ELSE "Operation canceled by the user."
    /\ pc' = AfterAnswer(Proceeds(user_input))
    /\ user_input' = NoInput
    /\ UNCHANGED <<argVars, loadVars, planVars, execIdx, results, fsVars, repo>>

\* The destination of an operation: the proposed name cleaned again.
CleanedPath(new) ==
    LET parts == path_split(new)
        ne    == path_splitext(parts[2])
    IN  path_join(parts[1], clean_name(ne[1]) \o ne[2])

\* time.sleep(sleep_arg) raises ValueError for a negative argument.
SleepRaises(t) == t < 0

\* Missing without the test that the file exists.
MissingUnchecked(fs, old) == FALSE

\* The rename loop skips an operation whose file is not found.
Missing(fs, old) == ~os_path_exists(fs, old)

\* AfterOperation leaving the loop after the first operation it handles.
AfterOperationBreak(i) == "backup"

\* The statement after the rename loop has handled operation i.
AfterOperation(i) == IF i < Len(processed_files) THEN "exec" ELSE "backup"

\* What the loop records for one operation: the messages printed for it
\* and the seconds time.sleep waited after it.
Result(i, dst, renamed, progress, failed, skipped, delay) ==
    [index |-> i, old |-> processed_files[i][1], new |-> dst, renamed |-> renamed,
     progress |-> progress, failed |-> failed, skipped |-> skipped, delay |-> delay]

\* One pass of the loop "Rename Files".  os.rename fails when the rename
\* is impossible and may be refused for a reason outside the model
\* (permission, device); every exception of the try block is caught and
\* reported.
ExecOp ==
    /\ pc = "exec"
    /\ \E cleaned_path \in {CleanedPath(processed_files[execIdx][2])} :
       LET old == processed_files[execIdx][1]
       IN  IF Missing(disk, old)
           THEN \* "ERROR: File not found ..., skipping."
                /\ results' = Append(results,
                                     Result(execIdx, cleaned_path, FALSE, FALSE, FALSE, TRUE, 0))
                /\ UNCHANGED disk
                /\ UNCHANGED faults
           ELSE \E refused \in {FALSE} \cup {TRUE : n \in 1..(MaxFaults - faults)} :
                   IF ~refused /\ RenamePossible(disk, old, cleaned_path)
                   THEN /\ disk' = os_rename(disk, old, cleaned_path)
                        /\ results' = Append(results,
                                             Result(execIdx, cleaned_path, TRUE, TRUE,
                                                    SleepRaises(sleep_arg), FALSE,
                                                    IF SleepRaises(sleep_arg) THEN 0
                                                    ELSE sleep_arg))
                        /\ UNCHANGED faults
                   ELSE /\ results' = Append(results,
                                             Result(execIdx, cleaned_path, FALSE, FALSE,
                                                    TRUE, FALSE, 0))
                        /\ faults' = IF refused THEN faults + 1 ELSE faults
                        /\ UNCHANGED disk
    /\ execIdx' = execIdx + 1
    /\ pc' = AfterOperation(execIdx)
    /\ UNCHANGED <<argVars, loadVars, planVars, user_input, confirmed, notice,
                   backup_dir, manifests, repo>>

(***************************************************************************)
(* main: the backup manifest                                               *)
(***************************************************************************)

\* BackupWanted when main forgets the backup flag.
BackupNever == FALSE

\* main calls backup_filenames when the backup flag is set.
BackupWanted == backup_flag

\* "Backup filenames if required", then "Processing complete."  open() may
\* fail; the exception is not caught.
Backup ==
    /\ pc = "backup"
    /\ IF BackupWanted
       THEN \E writable \in BOOLEAN :
               IF writable
               THEN /\ manifests' = Append(manifests,
                                           [rules |-> replacements, lines |-> processed_files])
                    /\ pc' = "done"
               ELSE /\ pc' = "OSError"
                    /\ UNCHANGED manifests
       ELSE /\ pc' = "done"
            /\ UNCHANGED manifests
    /\ UNCHANGED <<argVars, loadVars, planVars, execVars, disk, backup_dir, faults, repo>>

(***************************************************************************)
(* The environment                                                         *)
(***************************************************************************)

\* Another process removes the file of an operation the rename loop has
\* not reached yet.
ExternalRemove ==
    /\ pc = "exec"
    /\ faults < MaxFaults
    /\ \E i \in execIdx..Len(processed_files) :
          /\ os_path_isfile(disk, processed_files[i][1])
          /\ disk' = disk \ {Resolve(processed_files[i][1])}
    /\ faults' = faults + 1
    /\ UNCHANGED <<pc, argVars, loadVars, planVars, execVars, backup_dir, manifests, repo>>

Next ==
    \/ ProcessArgs
    \/ Discover
    \/ OpenDoc
    \/ LoadCategory
    \/ IncludeAnswer
    \/ CreateBackupDir
    \/ CollectFiles
    \/ PlanFile
    \/ Preview
    \/ Confirm
    \/ ExecOp
    \/ Backup
    \/ ExternalRemove

Spec == Init /\ [][Next]_vars

(***************************************************************************)
(* Properties                                                              *)
(***************************************************************************)

\* The name part of a path without its extension, and its extension.
StemOf(path) == path_splitext(path_split(path)[2])[1]
ExtOf(path)  == path_splitext(path_split(path)[2])[2]

\* The run has passed the preview with a batch the operator did not accept.
Declined ==
    /\ processed_files # <<>>
    /\ ~confirmed
    /\ pc \in {"backup", "done", "OSError"}

\* C1: no file is renamed unless the preview prompt was answered
\* affirmatively.  While the answer is missing or was not accepted, the
\* rename loop is not entered, no operation has been handled and every
\* candidate file is on disk under its original name.
C1_NoRenameBeforeYes ==
    ~confirmed =>
        /\ pc # "exec"
        /\ results = <<>>
        /\ \A i \in 1..Len(files_to_process) : os_path_isfile(disk, files_to_process[i])

\* A batch was previewed, declined, and the run has ended.
C1_Witness == Declined /\ pc = "done" /\ Len(processed_files) = 2

\* C2: declining the preview performs no file system mutation, whatever the
\* flags: after a decline there is no backup directory and no manifest.
C2_DeclineMutatesNothing == Declined => (~backup_dir /\ manifests = <<>>)

\* Some rule document cannot be parsed, lacks the "Replacements" list, or
\* has a category without a valid pairs list (counted in omitted once the
\* loader has met it).
LoadFailure ==
    \E i \in 1..Len(repo) :
        \/ ~repo[i].parses
        \/ ~repo[i].hasReplacements
        \/ \E k \in 1..Len(repo[i].Replacements) : ~repo[i].Replacements[k].pairsValid

\* C3: rule loading is all-or-nothing.  When some document is malformed in
\* one of the three ways, the run never reaches the planner, the preview or
\* the rename loop.
C3_LoadAllOrNothing ==
    (LoadFailure \/ omitted > 0) => (pc \notin {"plan", "preview", "confirm", "exec"} /\ plan_log = <<>>)

\* C4: an operation is in the planned batch only if the proposed file name
\* differs from the original file name.
C4_NoOpDropped ==
    \A i \in 1..Len(processed_files) :
        path_basename(processed_files[i][1]) # path_basename(processed_files[i][2])

\* The pairs of a rule set in application order.
RECURSIVE FlatPairs(_)
FlatPairs(cats) ==
    IF cats = <<>> THEN <<>> ELSE Head(cats).pairs \o FlatPairs(Tail(cats))

\* Literal pairs applied one after the other, each to the result of the
\* one before; a pair whose from is blank changes nothing.
RECURSIVE Chain(_, _)
Chain(stem, ps) ==
    IF ps = <<>> THEN stem
    ELSE Chain(IF str_strip(Head(ps).from) = <<>> THEN stem
               ELSE str_replace(stem, Head(ps).from, Head(ps).to),
               Tail(ps))

\* No category of the merged rule set is applied as regular expressions.
LiteralRun == \A c \in 1..Len(replacements) :
                 ~(expression_flag /\ replacements[c].regular_expressions)

\* C5: rule application composes left to right over the whole rule set.
\* In a run whose pairs are all literal, the proposed stem of every planned
\* candidate is the chain of the pairs in rule-set order; the rule set
\* a->b then b->c turns the stem "a" into "c", not "b".  The planner's log
\* only grows, so each candidate is examined while it is the latest one.
C5_ComposesLeftToRight ==
    (pc \in {"plan", "preview"} /\ plan_log # <<>>) =>
        LET e == plan_log[Len(plan_log)]
        IN  /\ LiteralRun =>
                 e.new_file_path =
                    path_join(path_split(e.file_path)[1],
                              Chain(StemOf(e.file_path), FlatPairs(replacements))
                                 \o ExtOf(e.file_path))
            /\ (replacements = <<CatDemo, CatNext>> /\ StemOf(e.file_path) = <<"a">>)
                 => StemOf(e.new_file_path) = <<"c">>

\* A candidate with stem "a" was planned under a->b followed by b->c.
C5_Witness ==
    /\ replacements = <<CatDemo, CatNext>>
    /\ \E i \in 1..Len(plan_log) :
          /\ StemOf(plan_log[i].file_path) = <<"a">>
          /\ StemOf(plan_log[i].new_file_path) = <<"c">>

\* C6: a malformed pattern in regex mode is reported for its pair only; the
\* planner goes on with the following pairs, categories and files and is
\* never ended by it.
C6_MalformedPairIsLocal == pc # "KeyError"

\* C7: every proposed name of the planner has a whitespace-normalized stem:
\* runs of whitespace collapsed to one space, no leading or trailing
\* whitespace.
C7_PlannedStemNormalized ==
    \A i \in 1..Len(plan_log) :
        clean_name(StemOf(plan_log[i].new_file_path)) = StemOf(plan_log[i].new_file_path)

\* C8: after confirmation the rename loop handles every operation of the
\* batch exactly once, in the planner's order, whatever the outcome of the
\* operations before it.
C8_EveryOperationOnceInOrder ==
    confirmed =>
        /\ Len(results) = execIdx - 1
        /\ \A i \in 1..Len(results) :
              /\ results[i].index = i
              /\ results[i].old = processed_files[i][1]
        /\ pc # "exec" => Len(results) = Len(processed_files)

\* The first operation was skipped or failed and the second was renamed.
C8_Witness ==
    /\ pc = "done"
    /\ Len(results) = 2
    /\ ~results[1].renamed
    /\ results[2].renamed

\* C9: an operation whose original path no longer exists when the loop
\* reaches it is marked skipped, nothing is renamed for it, the outcomes
\* recorded so far are kept and the loop goes on with the next operation.
C9_MissingFileSkipped ==
    [][(/\ pc = "exec"
        /\ execIdx' = execIdx + 1
        /\ ~os_path_exists(disk, processed_files[execIdx][1]))
       => /\ disk' = disk
          /\ Len(results') = Len(results) + 1
          /\ SubSeq(results', 1, Len(results)) = results
          /\ results'[Len(results')].skipped
          /\ ~results'[Len(results')].renamed
          /\ ~results'[Len(results')].failed
          /\ pc' = IF execIdx < Len(processed_files) THEN "exec" ELSE "backup"]_vars

\* The first operation was skipped and the loop handled the second.
C9_Witness ==
    /\ Len(results) = 2
    /\ results[1].skipped
    /\ ~results[2].skipped

\* C10 as stated: the gate proceeds exactly when the line, compared without
\* regard to case, is "y" or "yes".
C10_ProceedsIffYes ==
    [][pc = "confirm"
       => (pc' = "exec" <=> str_lower(user_input) \in {<<"y">>, <<"y", "e", "s">>})]_vars

\* C10 as amended: the gate proceeds exactly when the line without its
\* leading and trailing whitespace, compared without regard to case, is "y"
\* or "yes" (of the lines typed: "y" and " YES"); every other line cancels
\* the whole batch.
C10_ProceedsIffTrimmedYes ==
    [][pc = "confirm"
       => /\ (pc' = "exec" /\ confirmed')
             <=> user_input \in {<<"y">>, <<" ", "Y", "E", "S">>}
          /\ (pc' = "backup" /\ ~confirmed' /\ results' = <<>>)
             <=> user_input \notin {<<"y">>, <<" ", "Y", "E", "S">>}]_vars

\* The line " YES" was typed and the rename loop was entered.
C10_Witness == confirmed /\ pc = "exec" /\ execIdx = 1

\* C11: with an empty planned batch the gate reports that there is nothing
\* to do, issues no confirmation prompt (the run is never at the test of an
\* answer), does not proceed, and no operation is attempted.
C11_EmptyBatchShortCircuits ==
    processed_files = <<>> =>
        /\ pc \notin {"confirm", "exec"}
        /\ ~confirmed
        /\ results = <<>>
        /\ user_input = NoInput
        /\ notice \in {NoNotice, "No files to process."}
        /\ pc \in {"backup", "done", "OSError"} => notice = "No files to process."

\* Candidates were planned, none needs a new name, and the gate was passed.
C11_Witness ==
    /\ pc = "done"
    /\ Len(plan_log) = 2
    /\ processed_files = <<>>
    /\ notice = "No files to process."

\* The categories with a pairs list of the documents ds, in load order.
RECURSIVE LoadedCategories(_)
LoadedCategories(ds) ==
    IF ds = <<>> THEN <<>>
    ELSE SelectSeq(repo[Head(ds)].Replacements, LAMBDA c : c.pairsValid)
            \o LoadedCategories(Tail(ds))

\* load_json_files has handled every document and is about to return.
LoadFinished == pc = "open" /\ docIdx > Len(replace_json_args)

\* C12: in step mode every loaded category is asked about exactly once, in
\* load order, and is merged exactly when the line typed is an acceptance
\* (of the lines typed: "y" and " YES"); without step mode nothing is asked
\* and every loaded category is merged.  After loading, the rule set is not
\* changed again, so the planner receives exactly the accepted categories.
C12_StepFilter ==
    /\ [][pc = "answer" =>
            replacements' = IF user_response \in {<<"y">>, <<" ", "Y", "E", "S">>}
                            THEN Append(replacements, CurrentCategory)
                            ELSE replacements]_vars
    /\ [][(pc = "category" /\ CurrentCategory.pairsValid) =>
            IF step_flag
            THEN /\ prompts' = Append(prompts, CurrentCategory.category)
                 /\ replacements' = replacements
                 /\ pc' = "answer"
            ELSE /\ prompts' = prompts
                 /\ replacements' = Append(replacements, CurrentCategory)]_vars
    /\ [][pc \notin {"category", "answer"} =>
            (replacements' = replacements /\ prompts' = prompts)]_vars
    /\ [](LoadFinished =>
            LET loaded == LoadedCategories(replace_json_args)
            IN  IF step_flag
                THEN prompts = [i \in 1..Len(loaded) |-> loaded[i].category]
                ELSE prompts = <<>> /\ replacements = loaded)

\* Two categories were asked about in step mode, one was rejected, and the
\* planner runs with the other.
C12_Witness ==
    /\ step_flag
    /\ pc = "plan"
    /\ Len(prompts) = 2
    /\ Len(replacements) = 1

\* Every category the documents ds declare, document after document.
RECURSIVE DeclaredCategories(_)
DeclaredCategories(ds) ==
    IF ds = <<>> THEN <<>>
    ELSE repo[Head(ds)].Replacements \o DeclaredCategories(Tail(ds))

\* C13: without the step filter the merged rule set is the concatenation of
\* the categories of all supplied documents, documents in the order supplied
\* and categories in the order declared, nothing removed: its length is the
\* sum of the documents' category counts.
C13_MergeIsConcatenation ==
    (LoadFinished /\ ~step_flag) =>
        replacements = DeclaredCategories(replace_json_args)

\* C14: with backup enabled a run that completes has written exactly one
\* manifest: the rule set that was applied (the categories retained after
\* the filter, in order) followed by one line per pair of the batch, in the
\* order in which the rename loop handled them.  Without backup none is
\* written, and no run writes more than one.
C14_OneManifestPerRun ==
    /\ Len(manifests) <= 1
    /\ pc = "done" =>
          IF backup_flag
          THEN /\ Len(manifests) = 1
               /\ manifests[1].rules = replacements
               /\ manifests[1].lines = processed_files
               /\ \A i \in 1..Len(results) :
                     manifests[1].lines[i][1] = results[i].old
          ELSE manifests = <<>>

\* A step-mode run with backup rejected one category of two, renamed a file
\* and wrote its manifest.
C14_Witness ==
    /\ pc = "done"
    /\ backup_flag /\ step_flag
    /\ Len(prompts) = 2
    /\ Len(replacements) = 1
    /\ manifests # <<>>
    /\ \E i \in 1..Len(results) : results[i].renamed

\* C15: a --sleep value outside 1..60 ends argument parsing; the delay is
\* waited after each successful rename and after no other operation, and
\* only when it was configured; without --sleep nothing is waited and a
\* successful rename is reported as renamed, not as failed.
C15_DelayOnlyAfterRename ==
    /\ (sleep_arg # NotGiven /\ ~(1 <= sleep_arg /\ sleep_arg <= 60)) => pc = "exit2"
    /\ \A i \in 1..Len(results) :
          /\ results[i].delay = IF results[i].renamed /\ sleep_arg # NotGiven
                                THEN sleep_arg ELSE 0
          /\ results[i].renamed => ~results[i].failed

\* C16: argument parsing ends with a usage error exactly when delete is given
\* without position, add without position, or position with neither delete
\* nor add (or --sleep is out of range); position with delete, and position
\* with add, are accepted.
C16_UsageErrorIffCompanionMissing ==
    [][pc = "args" =>
         (pc' = "exit2" <=>
             \/ ~(sleep_arg' = NotGiven \/ (1 <= sleep_arg' /\ sleep_arg' <= 60))
             \/ (delete_arg' # NotGiven /\ position_arg' = NotGiven)
             \/ (add_arg' # <<>> /\ position_arg' = NotGiven)
             \/ (position_arg' # NotGiven /\ delete_arg' = NotGiven /\ add_arg' = <<>>))]_vars

\* C17: the manifest is written at most once per run, and a write that fails
\* is reported on a status line: the run is not ended by the exception, and
\* the renames already made stay in place.
C17_WriteFailureIsReported ==
    /\ Len(manifests) <= 1
    /\ ~(backup_flag /\ pc = "OSError")

\* Number of pairs in the categories before category c of a rule set.
RECURSIVE PairsBefore(_, _)
PairsBefore(cats, c) ==
    IF c = 1 THEN 0 ELSE PairsBefore(cats, c - 1) + Len(cats[c - 1].pairs)

\* The stem the planner had before and after pair j of category c, for the
\* candidate it logged last.
StemBefore(c, j) == plan_log[Len(plan_log)].names[PairsBefore(replacements, c) + j]
StemAfter(c, j)  == plan_log[Len(plan_log)].names[PairsBefore(replacements, c) + j + 1]

\* s with every character equal to c replaced by the text to.
RECURSIVE MapChar(_, _, _)
MapChar(s, c, to) ==
    IF s = <<>> THEN <<>>
    ELSE (IF Head(s) = c THEN to ELSE <<Head(s)>>) \o MapChar(Tail(s), c, to)

\* The text p occurs somewhere in s.
Occurs(s, p) == \E i \in 1..(Len(s) - Len(p) + 1) : SubSeq(s, i, i + Len(p) - 1) = p

\* Number of positions of s that hold the character c.
CountChar(s, c) == Cardinality({i \in 1..Len(s) : s[i] = c})

\* A from text of which something is left after trimming.
NotBlank(p) == \E i \in 1..Len(p) : p[i] # " "

\* The planner has just logged a candidate.
JustPlanned == pc \in {"plan", "preview"} /\ plan_log # <<>>
Latest == plan_log[Len(plan_log)]

\* C18: in literal mode a pair replaces every occurrence of from in the
\* current stem by to and leaves the stem as it is when from does not
\* occur; x->y turns "xax xbx" into "yay yby".  Each candidate is examined
\* while it is the latest one logged.
C18_LiteralReplacesAll ==
    JustPlanned =>
        /\ ApplyReplacements(<<"x", "a", "x", " ", "x", "b", "x">>,
                             <<Category("demo", <<Pair(<<"x">>, <<"y">>)>>, FALSE)>>,
                             expression_flag).name
              = <<"y", "a", "y", " ", "y", "b", "y">>
        /\ \A c \in 1..Len(replacements) :
              ~(expression_flag /\ replacements[c].regular_expressions) =>
                 \A j \in 1..Len(replacements[c].pairs) :
                    LET from == replacements[c].pairs[j].from
                        to   == replacements[c].pairs[j].to
                    IN  NotBlank(from) =>
                           /\ ~Occurs(StemBefore(c, j), from)
                                 => StemAfter(c, j) = StemBefore(c, j)
                           /\ Len(from) = 1
                                 => StemAfter(c, j) = MapChar(StemBefore(c, j), from[1], to)

\* A literal pair met two occurrences of its from in the stem it was given.
C18_Witness ==
    /\ JustPlanned
    /\ \E c \in 1..Len(replacements) :
          /\ ~(expression_flag /\ replacements[c].regular_expressions)
          /\ \E j \in 1..Len(replacements[c].pairs) :
                LET from == replacements[c].pairs[j].from
                IN  /\ Len(from) = 1 /\ NotBlank(from)
                    /\ CountChar(StemBefore(c, j), from[1]) = 2
                    /\ CountChar(StemAfter(c, j), from[1]) = 0

\* The pairs of the rule set that are applied as regular expressions and do
\* not compile.
InvalidPatterns ==
    UNION {{<<c, j>> : j \in {i \in 1..Len(replacements[c].pairs) :
                                 Occurs(replacements[c].pairs[i].from, <<"(">>)}} :
           c \in {d \in 1..Len(replacements) :
                     expression_flag /\ replacements[d].regular_expressions}}

\* C19: a pair is a regular expression exactly when --expression is given
\* and its category asks for regular expressions; otherwise from is literal
\* text.  The pattern "." rewrites every character in regex mode and only
\* the dots otherwise; the pattern "(" is reported as invalid in regex mode
\* only; a pattern that finds no match leaves the stem as it is and reports
\* nothing.
C19_RegexIffBothFlags ==
    JustPlanned =>
        /\ plan_log[Len(plan_log)].errors = Cardinality(InvalidPatterns)
        /\ \A c \in 1..Len(replacements) :
              LET both == expression_flag /\ replacements[c].regular_expressions
              IN  \A j \in 1..Len(replacements[c].pairs) :
                     LET from == replacements[c].pairs[j].from
                         to   == replacements[c].pairs[j].to
                     IN  NotBlank(from) =>
                            /\ from = <<".">> =>
                                  StemAfter(c, j) =
                                     IF both
                                     THEN [i \in 1..Len(StemBefore(c, j)) |-> to[1]]
                                     ELSE MapChar(StemBefore(c, j), ".", to)
                            /\ from = <<"(">> => StemAfter(c, j) = StemBefore(c, j)
                            /\ (both /\ from = <<"a", ".">>
                                  /\ ~\E i \in 1..(Len(StemBefore(c, j)) - 1) :
                                         StemBefore(c, j)[i] = "a")
                                  => StemAfter(c, j) = StemBefore(c, j)
                            /\ (~both /\ Len(from) = 1) =>
                                  StemAfter(c, j) = MapChar(StemBefore(c, j), from[1], to)
                            /\ (~both /\ ~Occurs(StemBefore(c, j), from))
                                  => StemAfter(c, j) = StemBefore(c, j)

\* With --expression, the stem "a" went through the category "regex" (its
\* two-character pattern found no match) and then through the literal
\* category "next".
C19_Witness ==
    /\ JustPlanned
    /\ expression_flag
    /\ replacements = <<CatRegex, CatNext>>
    /\ StemBefore(1, 1) = <<"a">>
    /\ StemAfter(1, 2) = <<"a">>
    /\ plan_log[Len(plan_log)].errors = 1

\* Position of the last "." of a name, 0 when it has none.
LastDot(name) ==
    IF \E i \in 1..Len(name) : name[i] = "."
    THEN CHOOSE i \in 1..Len(name) :
            name[i] = "." /\ \A j \in (i + 1)..Len(name) : name[j] # "."
    ELSE 0

\* C20 as stated: the extension of a candidate's name is the text from its
\* last "." on (empty without a "."), also for a name that begins with a
\* dot; the rules read the rest, and the proposed name is the transformed
\* rest followed by that extension.
C20_ExtensionFromLastDot ==
    JustPlanned =>
        LET name == path_basename(Latest.file_path)
            dot  == LastDot(name)
            stem == IF dot = 0 THEN name ELSE SubSeq(name, 1, dot - 1)
            ext  == IF dot = 0 THEN <<>> ELSE SubSeq(name, dot, Len(name))
        IN  /\ Latest.names[1] = stem
            /\ Latest.new_file_path =
                  path_join(path_split(Latest.file_path)[1],
                            Latest.names[Len(Latest.names)] \o ext)

\* C20 as amended: the extension is the text from the last "." on when a
\* character other than "." comes before that dot, and empty otherwise (a
\* name that only begins with dots is all stem).
C20_ExtensionFromLastInnerDot ==
    JustPlanned =>
        LET name  == path_basename(Latest.file_path)
            dot   == LastDot(name)
            inner == dot > 0 /\ \E j \in 1..(dot - 1) : name[j] # "."
            stem  == IF inner THEN SubSeq(name, 1, dot - 1) ELSE name
            ext   == IF inner THEN SubSeq(name, dot, Len(name)) ELSE <<>>
        IN  /\ Latest.names[1] = stem
            /\ Latest.new_file_path =
                  path_join(path_split(Latest.file_path)[1],
                            Latest.names[Len(Latest.names)] \o ext)

\* The name ".ab" was planned and the rules changed what follows its dot.
C20_Witness ==
    /\ JustPlanned
    /\ path_basename(Latest.file_path) = <<".", "a", "b">>
    /\ path_basename(Latest.new_file_path) = <<".", "b", "b">>

\* The pairs of the rule set whose from is the empty string, and those of
\* whose from nothing is left after trimming.
EmptyFroms ==
    UNION {{<<c, j>> : j \in {i \in 1..Len(replacements[c].pairs) :
                                 replacements[c].pairs[i].from = <<>>}} :
           c \in 1..Len(replacements)}
BlankFroms ==
    UNION {{<<c, j>> : j \in {i \in 1..Len(replacements[c].pairs) :
                                 ~NotBlank(replacements[c].pairs[i].from)}} :
           c \in 1..Len(replacements)}

\* C21 as stated: the planner skips a pair with a warning, leaving the stem
\* as it is, exactly when its from is the empty string; a from made only of
\* whitespace is applied like any other (literally here: every space of the
\* stem is replaced).
C21_SkipsOnlyEmptyFrom ==
    JustPlanned =>
        /\ plan_log[Len(plan_log)].warnings =
              Cardinality(EmptyFroms)
        /\ \A c \in 1..Len(replacements) :
              \A j \in 1..Len(replacements[c].pairs) :
                 LET from == replacements[c].pairs[j].from
                     to   == replacements[c].pairs[j].to
                 IN  /\ from = <<>> => StemAfter(c, j) = StemBefore(c, j)
                     /\ (from = <<" ">> /\ ~(expression_flag /\ replacements[c].regular_expressions))
                           => StemAfter(c, j) = MapChar(StemBefore(c, j), " ", to)

\* C21 as amended: the planner skips a pair with a warning, leaving the stem
\* as it is, exactly when nothing is left of its from after trimming
\* whitespace (the empty string, or whitespace only); every other pair goes
\* through the literal or regex step.
C21_SkipsBlankFrom ==
    JustPlanned =>
        /\ plan_log[Len(plan_log)].warnings =
              Cardinality(BlankFroms)
        /\ \A c \in 1..Len(replacements) :
              \A j \in 1..Len(replacements[c].pairs) :
                 LET from == replacements[c].pairs[j].from
                     to   == replacements[c].pairs[j].to
                 IN  /\ ~NotBlank(from) => StemAfter(c, j) = StemBefore(c, j)
                     /\ (NotBlank(from) /\ Len(from) = 1
                            /\ ~(expression_flag /\ replacements[c].regular_expressions))
                           => StemAfter(c, j) = MapChar(StemBefore(c, j), from[1], to)

\* A stem with spaces met the pair whose from is one space, and kept them.
C21_Witness ==
    /\ JustPlanned
    /\ replacements = <<CatDemo>>
    /\ StemBefore(1, 2) = <<"a", " ", " ", "b", " ">>
    /\ StemAfter(1, 2) = <<"a", " ", " ", "b", " ">>
    /\ plan_log[Len(plan_log)].warnings = 2

\* C22: the rename loop prints a progress line after every operation of the
\* batch, whatever its outcome: as many progress lines as operations.
C22_ProgressAfterEveryOperation ==
    \A i \in 1..Len(results) : results[i].progress

\* The stage the run is in, in the order of the design: loader 1 (a document
\* is about to be parsed), filter 2 (an inclusion prompt is being answered,
\* or the load loop has ended), planner 3, preview gate 4, executor 5,
\* recorder 6; 0 elsewhere.
Stage ==
    CASE pc = "open" /\ ~LoadFinished -> 1
      [] pc = "answer" \/ (pc = "open" /\ LoadFinished) -> 2
      [] pc \in {"collect", "plan", "KeyError"} -> 3
      [] pc \in {"preview", "confirm"} -> 4
      [] pc = "exec" -> 5
      [] pc \in {"backup", "done", "OSError"} -> 6
      [] OTHER -> 0

\* A rule document is about to be parsed.
ParsesDocument == pc = "open" /\ ~LoadFinished

\* C23: the stages of a run follow one another in the fixed order and none
\* is entered again once a later one has begun; no document is parsed after
\* the first inclusion prompt, and a manifest is written only by the
\* recorder, after the rename loop.
C23_StagesInOrder ==
    /\ [][Stage > 0 /\ Stage' > 0 => Stage' >= Stage]_vars
    /\ [](ParsesDocument => prompts = <<>>)
    /\ [][manifests' # manifests => pc = "backup"]_vars

\* C24: the rename loop goes through exactly the batch that was previewed,
\* operation by operation, and the name a renamed file has on disk is the
\* name the preview showed for its operation.
C24_RenamedAsPreviewed ==
    \A i \in 1..Len(results) :
        /\ results[i].old = processed_files[i][1]
        /\ results[i].renamed =>
              path_basename(results[i].new) = path_basename(processed_files[i][2])

\* C25: the rename loop never overwrites a file: one pass of the loop leaves
\* the number of files on disk as it was.
C25_NoFileDestroyed ==
    [][(pc = "exec" /\ execIdx' = execIdx + 1) =>
          Cardinality(disk') = Cardinality(disk)]_vars

\* C26: every operation handled has exactly one outcome, renamed, skipped or
\* failed, and the outcome is what happened to the file.
C26_OneOutcomePerOperation ==
    \A i \in 1..Len(results) :
        Cardinality({o \in {"renamed", "skipped", "failed"} : results[i][o]}) = 1

\* C27: every line of a written manifest is a rename that was performed in
\* this run, with the name the file was given: no line for a skipped or
\* failed operation, none after a declined batch.
C27_ManifestListsRenames ==
    \A m \in 1..Len(manifests) :
        \A i \in 1..Len(manifests[m].lines) :
              /\ confirmed
              /\ i <= Len(results)
              /\ results[i].renamed
              /\ manifests[m].lines[i] = <<results[i].old, results[i].new>>

\* The directory a path puts its file in: the head of the path, where a
\* trailing "." component names the directory before it.
DirectoryOf(p) ==
    LET head == path_split(p)[1]
        n == Len(head)
    IN  IF n >= 3 /\ head[n] = "." /\ head[n - 1] = "/"
        THEN RStripSlash(Slice(head, 1, n - 1))
        ELSE head

\* C28: every planned operation and every rename keeps the file in its
\* directory.
C28_StaysInDirectory ==
    /\ \A i \in 1..Len(processed_files) :
          DirectoryOf(processed_files[i][2]) = DirectoryOf(processed_files[i][1])
    /\ \A i \in 1..Len(results) :
          results[i].renamed => DirectoryOf(results[i].new) = DirectoryOf(results[i].old)

\* C29: each rule document is loaded once per run, also when it is named on
\* the command line and found in the directory.
C29_DocumentLoadedOnce ==
    \A i, j \in 1..Len(replace_json_args) :
        i # j => replace_json_args[i] # replace_json_args[j]

\* C30: the pairs given with --replace are among the rules the planner
\* applies: when the stem of a planned candidate contains the from of such a
\* pair and no category was loaded, the batch has an operation for the
\* candidate, with a name that differs from the original.
C30_InlinePairsApplied ==
    (JustPlanned /\ replacements = <<>>) =>
        \A k \in 1..Len(replace_args) :
            (/\ replace_args[k].from # <<>>
             /\ str_contains(StemOf(Latest.file_path), replace_args[k].from)
             /\ replace_args[k].from # replace_args[k].to) =>
                \E i \in 1..Len(processed_files) :
                    /\ processed_files[i][1] = Latest.file_path
                    /\ processed_files[i][2] # Latest.file_path

====
